---- MODULE Spec2Model ----
(***************************************************************************)
(* A model of src/sardonic.js: the Sardonic class (constructor,           *)
(* findFrames, generateSequence, prepareFrames/createRotatedFrame,         *)
(* createConcatFile, buildGlitchFilter, create, overlayOnVideo) and the    *)
(* scratch files under /tmp that its runs write, read and delete.          *)
(*                                                                         *)
(* Time is counted in ticks.  One millisecond is RandDen ticks, so that    *)
(* minFrameDuration + Math.random() * range is an exact number of ticks    *)
(* when Math.random() returns k / RandDen and the options are whole        *)
(* milliseconds.  Arithmetic is exact (no IEEE-754 rounding).              *)
(***************************************************************************)
EXTENDS Integers, Sequences, FiniteSets, TLC

VARIABLES
    options,        \* [run -> the options object given to the constructor]
    dirFiles,       \* [run -> number of files `ls -1 pattern` lists]
    self,           \* [run -> the fields of the Sardonic object (this.*)]
    pc,             \* [run -> position of the run in create()/overlayOnVideo()]
    currentTime,    \* [run -> generateSequence's currentTime]
    sequence,       \* [run -> generateSequence's sequence]
    i,              \* [run -> prepareFrames' loop index]
    preparedFrames, \* [run -> prepareFrames' preparedFrames]
    convertExit,    \* [run -> exit statuses the convert processes reported]
    concatFile,     \* [run -> value returned by createConcatFile, <<>> before]
    glitchFilter,   \* [run -> value returned by buildGlitchFilter, <<>> before]
    encoded,        \* [run -> what the run's ffmpeg encode read from /tmp]
    err,            \* [run -> the Error create()/overlayOnVideo() rejected with]
    overlay,        \* [run -> the locals of overlayOnVideo]
    fs              \* the files under /tmp, shared by all runs

vars == <<options, dirFiles, self, pc, currentTime, sequence, i, preparedFrames,
          convertExit, concatFile, glitchFilter, encoded, err, overlay, fs>>

(***************************************************************************)
(* Bounds of the model.                                                    *)
(***************************************************************************)
\* Math.random() returns k / RandDen for k in 0 .. RandDen-1
RandDen == 2
\* largest totalDuration option tried by Spec, in milliseconds
MaxTotal == 3
\* largest number of files the frame pattern matches
MaxFrames == 2

\* the planning loop is cut after MaxEvents events: a valid configuration
\* with totalDuration <= MaxTotal ms and minFrameDuration >= 1 ms needs no
\* more, and a loop that makes no progress is followed that far
MaxEvents == MaxTotal

Runs == {1, 2}

\* x milliseconds, in ticks
Ms(x) == x * RandDen

TicksPerSecond == Ms(1000)

Draws == 0 .. (RandDen - 1)

Abs(x) == IF x < 0 THEN -x ELSE x

(***************************************************************************)
(* Values.                                                                 *)
(***************************************************************************)
\* a JavaScript number that may be NaN
Num(v) == [nan |-> FALSE, val |-> v]
NaN == [nan |-> TRUE, val |-> 0]

\* x > 0 on a JavaScript number: false for NaN
Positive(x) == (~x.nan) /\ x.val > 0

\* a || b on numbers: 0 (and an absent option, given as 0) is falsy
OrDefault(a, b) == IF a = 0 THEN b ELSE a

\* Number.prototype.toFixed(digits) of num/den, as a count of 10^-digits
\* (scale = 10^digits): the nearest one, the larger in magnitude on a tie
ToFixed(num, den, scale) ==
    LET q == (2 * Abs(num) * scale + den) \div (2 * den)
    IN  IF num < 0 THEN -q ELSE q

\* Math.ceil(a / b), b # 0
Ceil(a, b) == IF b > 0 THEN -((-a) \div b) ELSE -(a \div (-b))

\* Math.floor(k/RandDen * n), n >= 0
FloorScale(k, n) == (k * n) \div RandDen

NoErr == [msg |-> "", index |-> -1]
Error(m, ix) == [msg |-> m, index |-> ix]

(***************************************************************************)
(* constructor                                                             *)
(***************************************************************************)
DefaultTotalDuration == Ms(15000)
DefaultMaxFrameDuration == Ms(2000)
DefaultMinFrameDuration == Ms(100)
DefaultMaxRotation == 15
DefaultGlitchLevel == 0

Constructor(o) ==
    [ totalDuration    |-> OrDefault(o.duration, DefaultTotalDuration),
      maxFrameDuration |-> OrDefault(o.maxFrameDuration, DefaultMaxFrameDuration),
      minFrameDuration |-> OrDefault(o.minFrameDuration, DefaultMinFrameDuration),
      maxRotation      |-> OrDefault(o.maxRotation, DefaultMaxRotation),
      glitchLevel      |-> OrDefault(o.glitchLevel, DefaultGlitchLevel),
      frames           |-> << >> ]

(***************************************************************************)
(* The scratch files.                                                      *)
(***************************************************************************)
PngPath(index) == <<"/tmp/sardonic-", index, ".png">>
ConcatPath == <<"/tmp/sardonic-concat.txt">>
Paths == {PngPath(ix) : ix \in 0 .. (MaxEvents - 1)} \cup {ConcatPath}

NoFile == [exists |-> FALSE, writer |-> 0, data |-> << >>]
File(r, d) == [exists |-> TRUE, writer |-> r, data |-> d]

(***************************************************************************)
(* randomDuration, randomRotation, generateSequence                        *)
(***************************************************************************)
\* RandomDuration changed: minFrameDuration is not added
RandomDurationNoMin(s, k) ==
    (k * (s.maxFrameDuration - s.minFrameDuration)) \div RandDen

\* minFrameDuration + Math.random() * range, Math.random() = k / RandDen
RandomDuration(s, k) ==
    LET range == s.maxFrameDuration - s.minFrameDuration
    IN  s.minFrameDuration + (k * range) \div RandDen

\* (Math.random() * 2 - 1) * maxRotation, in 1/RandDen degrees
RandomRotation(s, k) == (2 * k - RandDen) * s.maxRotation

\* EventDuration changed: the last event is drawn like the others, unclamped
EventDurationNoFinal(s, ct, k) == RandomDuration(s, k)

\* the duration one iteration of the loop gives its event
EventDuration(s, ct, k) ==
    LET remaining == s.totalDuration - ct
    IN  IF remaining <= s.maxFrameDuration
        THEN remaining
        ELSE LET duration == RandomDuration(s, k)
             IN  IF ct + duration > s.totalDuration
                 THEN s.totalDuration - ct
                 ELSE duration

\* frames[Math.floor(Math.random() * frames.length)]
PickFrame(s, k) == s.frames[FloorScale(k, Len(s.frames)) + 1]

\* path.basename
Basename(frame) == frame[2]

(***************************************************************************)
(* createRotatedFrame: the convert arguments after the resize/rotate part  *)
(***************************************************************************)
GlitchArgs(level) ==
    (IF level >= 1 THEN <<"-modulate", "100,110,100">> ELSE << >>)
    \o (IF level >= 2 THEN <<"-attenuate", "0.3", "+noise", "Impulse">> ELSE << >>)
    \o (IF level >= 3 THEN <<"-channel", "R", "-evaluate", "add", "5">> ELSE << >>)

\* what convert writes to outputFrame: the image the arguments describe
RotatedImage(s, inputFrame, rotation) ==
    [ input   |-> inputFrame,
      rotate  |-> ToFixed(rotation, RandDen, 100),     \* rotation.toFixed(2)
      effects |-> GlitchArgs(s.glitchLevel) ]

(***************************************************************************)
(* createConcatFile: the lines of the concat descriptor                    *)
(***************************************************************************)
FileLine(path) == [key |-> "file", arg |-> path]
\* duration.toFixed(3): the duration in thousandths of a second
DurationLine(duration) ==
    [key |-> "duration", arg |-> ToFixed(duration, TicksPerSecond, 1000)]

RECURSIVE ConcatItems(_)
ConcatItems(prepared) ==
    IF prepared = << >> THEN << >>
    ELSE <<FileLine(Head(prepared).rotatedFrame),
           DurationLine(Head(prepared).duration)>>
         \o ConcatItems(Tail(prepared))

\* ConcatContent changed: the last frame is not listed again
ConcatContentNoLast(prepared) == ConcatItems(prepared)

\* the content written for a non-empty preparedFrames
ConcatContent(prepared) ==
    LET lastFrame == prepared[Len(prepared)]
    IN  ConcatItems(prepared) \o <<FileLine(lastFrame.rotatedFrame)>>

(***************************************************************************)
(* buildGlitchFilter                                                       *)
(***************************************************************************)
FormatFilter == "format=yuva420p"
ScanlineFilters ==
    << "split[a][b]",
       "[a]geq='r=r(X,Y):g=g(X,Y):b=b(X,Y):a=if(not(mod(Y\\,3))\\,255\\,a(X,Y))'[scanlines]",
       "[b][scanlines]overlay" >>
NoiseFilter == "noise=alls=10:allf=t+u"
ChromaticFilters ==
    << "split[main][dup]",
       "[dup]lutrgb=r=0:b=0,crop=iw-4:ih:2:0[green]",
       "[main][green]overlay=0:0" >>

\* GlitchFilters changed: the noise stage is pushed before the scanlines
GlitchFiltersNoiseFirst(level) ==
    IF level = 0 THEN <<FormatFilter>>
    ELSE <<FormatFilter>>
         \o (IF level >= 2 THEN <<NoiseFilter>> ELSE << >>)
         \o (IF level >= 1 THEN ScanlineFilters ELSE << >>)
         \o (IF level >= 3 THEN ChromaticFilters ELSE << >>)

\* the filters array of buildGlitchFilter (level 0 returns the format alone)
GlitchFilters(level) ==
    IF level = 0 THEN <<FormatFilter>>
    ELSE <<FormatFilter>>
         \o (IF level >= 1 THEN ScanlineFilters ELSE << >>)
         \o (IF level >= 2 THEN <<NoiseFilter>> ELSE << >>)
         \o (IF level >= 3 THEN ChromaticFilters ELSE << >>)

\* Array.prototype.join(','): the elements with a "," between neighbours
RECURSIVE Join(_)
Join(filters) ==
    IF Len(filters) <= 1 THEN filters
    ELSE <<Head(filters), ",">> \o Join(Tail(filters))

BuildGlitchFilterValue(level) == Join(GlitchFilters(level))

(***************************************************************************)
(* create(): findFrames, then generateSequence                             *)
(***************************************************************************)
\* the sorted listing `ls -1 frameDir/framePattern` gives
Listing(n) == [k \in 1 .. n |-> <<"frameDir", k>>]

FindFrames(r) ==
    /\ pc[r] = "new"
    /\ IF dirFiles[r] = 0
       THEN /\ pc' = [pc EXCEPT ![r] = "rejected"]
            /\ err' = [err EXCEPT ![r] = Error("Error finding frames: No frames found", -1)]
            /\ UNCHANGED self
       ELSE /\ self' = [self EXCEPT ![r].frames = Listing(dirFiles[r])]
            /\ pc' = [pc EXCEPT ![r] = "generateSequence"]
            /\ UNCHANGED err
    /\ UNCHANGED <<options, dirFiles, currentTime, sequence, i, preparedFrames,
                   convertExit, concatFile, glitchFilter, encoded, overlay, fs>>

\* one iteration of the while loop; kd, kf, kr are the values of the three
\* Math.random() calls
GenerateSequenceStep(r) ==
    /\ pc[r] = "generateSequence"
    /\ currentTime[r] < self[r].totalDuration
    /\ Len(sequence[r]) < MaxEvents
    /\ \E kd \in Draws, kf \in Draws, kr \in Draws :
          LET duration == EventDuration(self[r], currentTime[r], kd)
              frame    == PickFrame(self[r], kf)
              rotation == RandomRotation(self[r], kr)
          IN  /\ sequence' = [sequence EXCEPT ![r] =
                     Append(@, [ frame     |-> frame,
                                 duration  |-> duration,
                                 rotation  |-> rotation,
                                 frameName |-> Basename(frame) ])]
              /\ currentTime' = [currentTime EXCEPT ![r] = @ + duration]
    /\ UNCHANGED <<options, dirFiles, self, pc, i, preparedFrames, convertExit,
                   concatFile, glitchFilter, encoded, err, overlay, fs>>

\* the loop condition fails: return sequence, and create() enters prepareFrames
GenerateSequenceReturn(r) ==
    /\ pc[r] = "generateSequence"
    /\ ~(currentTime[r] < self[r].totalDuration)
    /\ pc' = [pc EXCEPT ![r] = "prepareFrames"]
    /\ i' = [i EXCEPT ![r] = 0]
    /\ preparedFrames' = [preparedFrames EXCEPT ![r] = << >>]
    /\ UNCHANGED <<options, dirFiles, self, currentTime, sequence, convertExit,
                   concatFile, glitchFilter, encoded, err, overlay, fs>>

(***************************************************************************)
(* prepareFrames and createRotatedFrame                                    *)
(***************************************************************************)
\* i < sequence.length: createRotatedFrame spawns convert and awaits it
PrepareFramesSpawn(r) ==
    /\ pc[r] = "prepareFrames"
    /\ i[r] < Len(sequence[r])
    /\ pc' = [pc EXCEPT ![r] = "convert"]
    /\ UNCHANGED <<options, dirFiles, self, currentTime, sequence, i,
                   preparedFrames, convertExit, concatFile, glitchFilter,
                   encoded, err, overlay, fs>>

\* the loop ends: return preparedFrames
PrepareFramesReturn(r) ==
    /\ pc[r] = "prepareFrames"
    /\ ~(i[r] < Len(sequence[r]))
    /\ pc' = [pc EXCEPT ![r] = "createConcatFile"]
    /\ UNCHANGED <<options, dirFiles, self, currentTime, sequence, i,
                   preparedFrames, convertExit, concatFile, glitchFilter,
                   encoded, err, overlay, fs>>

\* ConvertSucceeded changed: the exit status is not looked at
ConvertSucceededAlways(code) == TRUE

\* what the 'close' handler does with the exit status
ConvertSucceeded(code) == code = 0

\* the index the rejection names
FailedFrameIndex(index) == index

\* convert.on('close'): convert has written outputFrame when it exits with 0
ConvertClose(r) ==
    /\ pc[r] = "convert"
    /\ \E code \in {0, 1} :
        /\ convertExit' = [convertExit EXCEPT ![r] = Append(@, code)]
        /\ IF ConvertSucceeded(code)
           THEN LET item == sequence[r][i[r] + 1]
                    outputFrame == PngPath(i[r])
                IN  /\ fs' = [fs EXCEPT ![outputFrame] =
                              File(r, RotatedImage(self[r], item.frame, item.rotation))]
                    /\ preparedFrames' = [preparedFrames EXCEPT ![r] =
                          Append(@, [ frame        |-> item.frame,
                                      duration     |-> item.duration,
                                      rotation     |-> item.rotation,
                                      frameName    |-> item.frameName,
                                      rotatedFrame |-> outputFrame ])]
                    /\ i' = [i EXCEPT ![r] = @ + 1]
                    /\ pc' = [pc EXCEPT ![r] = "prepareFrames"]
                    /\ UNCHANGED err
           ELSE /\ err' = [err EXCEPT ![r] =
                        Error("ImageMagick failed for frame", FailedFrameIndex(i[r]))]
                /\ pc' = [pc EXCEPT ![r] = "rejected"]
                /\ UNCHANGED <<fs, preparedFrames, i>>
    /\ UNCHANGED <<options, dirFiles, self, currentTime, sequence, concatFile,
                   glitchFilter, encoded, overlay>>

\* convert.on('error'): the process could not be spawned
ConvertError(r) ==
    /\ pc[r] = "convert"
    /\ err' = [err EXCEPT ![r] = Error("spawn convert ENOENT", -1)]
    /\ pc' = [pc EXCEPT ![r] = "rejected"]
    /\ UNCHANGED <<options, dirFiles, self, currentTime, sequence, i,
                   preparedFrames, convertExit, concatFile, glitchFilter,
                   encoded, overlay, fs>>

(***************************************************************************)
(* createConcatFile, buildGlitchFilter and the encode                      *)
(***************************************************************************)
CreateConcatFile(r) ==
    /\ pc[r] = "createConcatFile"
    /\ IF preparedFrames[r] = << >>
       THEN \* lastFrame is undefined: lastFrame.rotatedFrame throws
            /\ err' = [err EXCEPT ![r] =
                    Error("TypeError: Cannot read properties of undefined", -1)]
            /\ pc' = [pc EXCEPT ![r] = "rejected"]
            /\ UNCHANGED <<fs, concatFile>>
       ELSE /\ fs' = [fs EXCEPT ![ConcatPath] =
                        File(r, ConcatContent(preparedFrames[r]))]
            /\ concatFile' = [concatFile EXCEPT ![r] = <<ConcatPath>>]
            /\ pc' = [pc EXCEPT ![r] = "buildGlitchFilter"]
            /\ UNCHANGED err
    /\ UNCHANGED <<options, dirFiles, self, currentTime, sequence, i,
                   preparedFrames, convertExit, glitchFilter, encoded, overlay>>

\* buildGlitchFilter, then spawn('ffmpeg', args)
BuildGlitchFilter(r) ==
    /\ pc[r] = "buildGlitchFilter"
    /\ glitchFilter' = [glitchFilter EXCEPT ![r] =
                            BuildGlitchFilterValue(self[r].glitchLevel)]
    /\ pc' = [pc EXCEPT ![r] = "ffmpeg"]
    /\ UNCHANGED <<options, dirFiles, self, currentTime, sequence, i,
                   preparedFrames, convertExit, concatFile, encoded, err,
                   overlay, fs>>

\* the paths the "file" lines of a descriptor name
FilePaths(content) ==
    {content[k].arg : k \in {j \in 1 .. Len(content) : content[j].key = "file"}}

\* ffmpeg opens the descriptor given with -i and the files it lists
FfmpegRead(r) ==
    /\ pc[r] = "ffmpeg"
    /\ LET desc == fs[concatFile[r][1]]
           listed == IF desc.exists THEN FilePaths(desc.data) ELSE {}
       IN  encoded' = [encoded EXCEPT ![r] =
              [ ok      |-> desc.exists /\ \A p \in listed : fs[p].exists,
                sources |-> (IF desc.exists THEN {desc.writer} ELSE {})
                            \cup {fs[p].writer : p \in {q \in listed : fs[q].exists}} ]]
    /\ pc' = [pc EXCEPT ![r] = "encoding"]
    /\ UNCHANGED <<options, dirFiles, self, currentTime, sequence, i,
                   preparedFrames, convertExit, concatFile, glitchFilter, err,
                   overlay, fs>>

\* fs.unlinkSync of every path of the sequence, errors ignored
RECURSIVE UnlinkAll(_, _)
UnlinkAll(files, paths) ==
    IF paths = << >> THEN files
    ELSE UnlinkAll([files EXCEPT ![Head(paths)] = NoFile], Tail(paths))

RotatedFramesOf(prepared) == [k \in 1 .. Len(prepared) |-> prepared[k].rotatedFrame]

\* ffmpeg.on('close'): with status 0, delete the scratch files and resolve
FfmpegClose(r) ==
    /\ pc[r] = "encoding"
    /\ \E code \in {0, 1} :
        /\ (code = 0) => encoded[r].ok
        /\ IF code = 0
           THEN LET cleaned == UnlinkAll(fs, RotatedFramesOf(preparedFrames[r]))
                IN  IF cleaned[concatFile[r][1]].exists
                    THEN /\ fs' = [cleaned EXCEPT ![concatFile[r][1]] = NoFile]
                         /\ pc' = [pc EXCEPT ![r] = "resolved"]
                         /\ UNCHANGED err
                    ELSE \* fs.unlinkSync(concatFile) throws inside the handler
                         /\ fs' = cleaned
                         /\ pc' = [pc EXCEPT ![r] = "crashed"]
                         /\ err' = [err EXCEPT ![r] = Error("ENOENT: unlink", -1)]
           ELSE /\ err' = [err EXCEPT ![r] = Error("ffmpeg encoding failed", -1)]
                /\ pc' = [pc EXCEPT ![r] = "rejected"]
                /\ UNCHANGED fs
    /\ UNCHANGED <<options, dirFiles, self, currentTime, sequence, i,
                   preparedFrames, convertExit, concatFile, glitchFilter,
                   encoded, overlay>>

\* ffmpeg.on('error')
FfmpegError(r) ==
    /\ pc[r] = "ffmpeg"
    /\ err' = [err EXCEPT ![r] = Error("spawn ffmpeg ENOENT", -1)]
    /\ pc' = [pc EXCEPT ![r] = "rejected"]
    /\ UNCHANGED <<options, dirFiles, self, currentTime, sequence, i,
                   preparedFrames, convertExit, concatFile, glitchFilter,
                   encoded, overlay, fs>>

(***************************************************************************)
(* overlayOnVideo                                                          *)
(***************************************************************************)
FallbackLoopCount == 50
DefaultMargin == 20
DefaultPosition == "bottom-right"

\* an ffmpeg expression a-b-c is the sequence of its terms
Var(n) == [kind |-> "var", name |-> n, val |-> 0]
Lit(v) == [kind |-> "num", name |-> "", val |-> v]

\* options.position || 'bottom-right' ("" stands for an absent position)
PositionOf(o) == IF o.position = "" THEN DefaultPosition ELSE o.position

\* options.margin || 20
MarginOf(o) == OrDefault(o.margin, DefaultMargin)

\* the switch on position
PlaceX(position, margin) ==
    CASE position = "bottom-right" -> <<Var("main_w"), Var("overlay_w"), Lit(margin)>>
      [] position = "bottom-left"  -> <<Lit(margin)>>
      [] position = "top-right"    -> <<Var("main_w"), Var("overlay_w"), Lit(margin)>>
      [] position = "top-left"     -> <<Lit(margin)>>
      [] OTHER                     -> <<Var("main_w"), Var("overlay_w"), Lit(margin)>>

PlaceY(position, margin) ==
    CASE position = "bottom-right" -> <<Var("main_h"), Var("overlay_h"), Lit(margin)>>
      [] position = "bottom-left"  -> <<Var("main_h"), Var("overlay_h"), Lit(margin)>>
      [] position = "top-right"    -> <<Lit(margin)>>
      [] position = "top-left"     -> <<Lit(margin)>>
      [] OTHER                     -> <<Var("main_h"), Var("overlay_h"), Lit(margin)>>

\* the try block around ffprobe: inputDuration stays 0 when execSync throws,
\* and is parseFloat of the output otherwise (NaN for an output such as "N/A")
ProbedDuration(probe) ==
    IF probe.throws THEN Num(0)
    ELSE IF probe.nan THEN NaN ELSE Num(probe.val)

\* LoopCount changed: Math.floor in place of Math.ceil
LoopCountFloor(inputDuration, totalDuration) ==
    IF Positive(inputDuration)
    THEN inputDuration.val \div totalDuration
    ELSE FallbackLoopCount

\* inputDuration > 0 ? Math.ceil(inputDuration / this.totalDuration) : 50
LoopCount(inputDuration, totalDuration) ==
    IF Positive(inputDuration)
    THEN Ceil(inputDuration.val, totalDuration)
    ELSE FallbackLoopCount

\* the arguments given to ffmpeg that the placement decides; -t is filtered
\* out when it is undefined
OverlayArgs(inputDuration, loopCount, x, y) ==
    [ stream_loop |-> loopCount - 1,
      x |-> x,
      y |-> y,
      t |-> IF Positive(inputDuration) THEN <<inputDuration.val>> ELSE << >> ]

NoOverlay ==
    [ options |-> [position |-> "", margin |-> 0],
      probe |-> [throws |-> FALSE, nan |-> FALSE, val |-> 0],
      position |-> "", margin |-> 0, inputDuration |-> Num(0),
      x |-> << >>, y |-> << >>, loopCount |-> 0,
      args |-> [stream_loop |-> 0, x |-> << >>, y |-> << >>, t |-> << >>] ]

Positions == {"", "bottom-right", "bottom-left", "top-right", "top-left", "center"}
Margins == {0, 5, 20}
OverlayCallOptions == [position : Positions, margin : Margins]
\* ffprobe: fails, prints no number, or prints a duration
ProbeOutcomes ==
    {[throws |-> TRUE, nan |-> FALSE, val |-> 0],
     [throws |-> FALSE, nan |-> TRUE, val |-> 0]}
    \cup {[throws |-> FALSE, nan |-> FALSE, val |-> Ms(d)] :
             d \in {-1, 0, 1, 2, 3, 42000}}

\* overlayOnVideo up to spawn('ffmpeg', args), called on a constructed object
\* or once create() has resolved
OverlayOnVideo(r) ==
    /\ pc[r] \in {"new", "resolved"}
    /\ \E o \in OverlayCallOptions, probe \in ProbeOutcomes :
          LET position == PositionOf(o)
              margin == MarginOf(o)
              inputDuration == ProbedDuration(probe)
              x == PlaceX(position, margin)
              y == PlaceY(position, margin)
              loopCount == LoopCount(inputDuration, self[r].totalDuration)
          IN  overlay' = [overlay EXCEPT ![r] =
                 [ options |-> o, probe |-> probe,
                   position |-> position, margin |-> margin,
                   inputDuration |-> inputDuration,
                   x |-> x, y |-> y, loopCount |-> loopCount,
                   args |-> OverlayArgs(inputDuration, loopCount, x, y) ]]
    /\ pc' = [pc EXCEPT ![r] = "compositing"]
    /\ UNCHANGED <<options, dirFiles, self, currentTime, sequence, i,
                   preparedFrames, convertExit, concatFile, glitchFilter,
                   encoded, err, fs>>

\* ffmpeg.on('close') of the composite
CompositeClose(r) ==
    /\ pc[r] = "compositing"
    /\ \E code \in {0, 1} :
          IF code = 0
          THEN /\ pc' = [pc EXCEPT ![r] = "overlaid"]
               /\ UNCHANGED err
          ELSE /\ pc' = [pc EXCEPT ![r] = "rejected"]
               /\ err' = [err EXCEPT ![r] = Error("Video overlay failed", -1)]
    /\ UNCHANGED <<options, dirFiles, self, currentTime, sequence, i,
                   preparedFrames, convertExit, concatFile, glitchFilter,
                   encoded, overlay, fs>>

\* ffmpeg.on('error') of the composite
CompositeError(r) ==
    /\ pc[r] = "compositing"
    /\ pc' = [pc EXCEPT ![r] = "rejected"]
    /\ err' = [err EXCEPT ![r] = Error("spawn ffmpeg ENOENT", -1)]
    /\ UNCHANGED <<options, dirFiles, self, currentTime, sequence, i,
                   preparedFrames, convertExit, concatFile, glitchFilter,
                   encoded, overlay, fs>>

(***************************************************************************)
(* Specifications                                                          *)
(***************************************************************************)
NoOptions ==
    [ duration |-> 0, maxFrameDuration |-> 0, minFrameDuration |-> 0,
      maxRotation |-> 0, glitchLevel |-> 0 ]

\* the runs in `active` have been constructed from os; nothing has run
Constructed(os, ns, active) ==
    /\ options = os
    /\ dirFiles = ns
    /\ self = [r \in Runs |-> Constructor(os[r])]
    /\ pc = [r \in Runs |-> IF r \in active THEN "new" ELSE "off"]
    /\ currentTime = [r \in Runs |-> 0]
    /\ sequence = [r \in Runs |-> << >>]
    /\ i = [r \in Runs |-> 0]
    /\ preparedFrames = [r \in Runs |-> << >>]
    /\ convertExit = [r \in Runs |-> << >>]
    /\ concatFile = [r \in Runs |-> << >>]
    /\ glitchFilter = [r \in Runs |-> << >>]
    /\ encoded = [r \in Runs |-> [ok |-> FALSE, sources |-> {}]]
    /\ err = [r \in Runs |-> NoErr]
    /\ overlay = [r \in Runs |-> NoOverlay]
    /\ fs = [p \in Paths |-> NoFile]

\* timing options, valid and invalid, with the other options left out
TimingOptions ==
    [ duration         : {Ms(-1)} \cup {Ms(t) : t \in 1 .. MaxTotal},
      maxFrameDuration : {Ms(0), Ms(1), Ms(2)},
      minFrameDuration : {Ms(-1), Ms(0), Ms(1), Ms(2)},
      maxRotation      : {0},
      glitchLevel      : {0} ]

\* every glitch level and two rotation ranges, on one valid timing
GlitchOptions ==
    [ duration         : {Ms(2)},
      maxFrameDuration : {Ms(1)},
      minFrameDuration : {Ms(1)},
      maxRotation      : {0, 30},
      glitchLevel      : 0 .. 4 ]

\* one run of create(): the timing options on a directory of one frame, the
\* glitch options on the same, and every size of directory on one timing
Inputs ==
    (TimingOptions \X {1})
    \cup (GlitchOptions \X {1})
    \cup ({o \in GlitchOptions : o.maxRotation = 0 /\ o.glitchLevel = 0}
            \X (0 .. MaxFrames))

Init ==
    \E c \in Inputs :
        Constructed([r \in Runs |-> IF r = 1 THEN c[1] ELSE NoOptions],
                    [r \in Runs |-> IF r = 1 THEN c[2] ELSE 0], {1})

Create(r) ==
    \/ FindFrames(r)
    \/ GenerateSequenceStep(r)
    \/ GenerateSequenceReturn(r)
    \/ PrepareFramesSpawn(r)
    \/ PrepareFramesReturn(r)
    \/ ConvertClose(r)
    \/ ConvertError(r)
    \/ CreateConcatFile(r)
    \/ BuildGlitchFilter(r)
    \/ FfmpegRead(r)
    \/ FfmpegClose(r)
    \/ FfmpegError(r)

Next == \E r \in Runs : Create(r)

Spec == Init /\ [][Next]_vars

\* generateSequence is synchronous code: once entered, its loop keeps running
Planning == \E r \in Runs : GenerateSequenceStep(r) \/ GenerateSequenceReturn(r)

LiveSpec == Spec /\ WF_vars(Planning)

\* create() and then overlayOnVideo(), as the command line chains them, or
\* overlayOnVideo() alone on a constructed object
OverlayOptions ==
    [ duration         : {Ms(0), Ms(1), Ms(2)},
      maxFrameDuration : {Ms(0)},
      minFrameDuration : {Ms(0)},
      maxRotation      : {0},
      glitchLevel      : {0} ]

InitOverlay ==
    \E o \in OverlayOptions :
        Constructed([r \in Runs |-> IF r = 1 THEN o ELSE NoOptions],
                    [r \in Runs |-> IF r = 1 THEN 1 ELSE 0], {1})

NextOverlay ==
    \E r \in Runs :
        \/ Create(r)
        \/ OverlayOnVideo(r)
        \/ CompositeClose(r)
        \/ CompositeError(r)

OverlaySpec == InitOverlay /\ [][NextOverlay]_vars

\* two runs of create() at once, each with its own object
ConcurrentOptions ==
    [ duration         : {Ms(1), Ms(2)},
      maxFrameDuration : {Ms(1)},
      minFrameDuration : {Ms(1)},
      maxRotation      : {0},
      glitchLevel      : {0} ]

InitConcurrent ==
    \E o1 \in ConcurrentOptions, o2 \in ConcurrentOptions :
        Constructed([r \in Runs |-> IF r = 1 THEN o1 ELSE o2],
                    [r \in Runs |-> 1], Runs)

ConcurrentSpec == InitConcurrent /\ [][Next]_vars

(***************************************************************************)
(* Properties of generateSequence                                          *)
(***************************************************************************)
RECURSIVE SumDurations(_)
SumDurations(events) ==
    IF events = << >> THEN 0
    ELSE Head(events).duration + SumDurations(Tail(events))

\* when event k of a sequence starts: the sum of the durations before it
StartTime(events, k) == SumDurations(SubSeq(events, 1, k - 1))

Min(a, b) == IF a <= b THEN a ELSE b

\* the configuration of run r is valid: a frame to pick, totalDuration > 0
\* and 0 < minFrameDuration <= maxFrameDuration
ValidConfig(r) ==
    /\ dirFiles[r] >= 1
    /\ self[r].totalDuration > 0
    /\ 0 < self[r].minFrameDuration
    /\ self[r].minFrameDuration <= self[r].maxFrameDuration

\* run r is in, or past, the planning loop
InPlanningLoop(r) == pc[r] = "generateSequence"
Planned(r) == pc[r] \notin {"off", "new", "generateSequence"} /\ err[r].msg # "Error finding frames: No frames found"

\* C1: under a valid configuration the events cover the timeline exactly:
\* the first starts at 0, each starts where the one before it ends,
\* currentTime is the end of the last one and never passes totalDuration,
\* and the durations of the returned sequence sum to totalDuration.
C1_ExactCoverage ==
    \A r \in Runs :
        (ValidConfig(r) /\ (InPlanningLoop(r) \/ Planned(r))) =>
            /\ currentTime[r] = SumDurations(sequence[r])
            /\ currentTime[r] <= self[r].totalDuration
            /\ \A k \in 1 .. Len(sequence[r]) :
                  /\ StartTime(sequence[r], k) + sequence[r][k].duration
                        <= self[r].totalDuration
                  /\ k = 1 => StartTime(sequence[r], k) = 0
                  /\ k > 1 => StartTime(sequence[r], k) =
                                StartTime(sequence[r], k - 1) + sequence[r][k - 1].duration
            /\ Planned(r) => SumDurations(sequence[r]) = self[r].totalDuration

\* a valid configuration has returned a sequence of several events, the
\* first drawn at random and not a whole number of milliseconds long
C1_Witness ==
    \E r \in Runs :
        /\ ValidConfig(r)
        /\ Planned(r)
        /\ Len(sequence[r]) >= 2
        /\ sequence[r][1].duration % RandDen # 0

\* C2: generateSequence never appends an event whose duration is <= 0.
C2_PositiveDurations ==
    \A r \in Runs : \A k \in 1 .. Len(sequence[r]) : sequence[r][k].duration > 0

\* the duration bounds of run r are invalid: minDur <= 0 or minDur > maxDur
InvalidDurationBounds(r) ==
    \/ self[r].minFrameDuration <= 0
    \/ self[r].minFrameDuration > self[r].maxFrameDuration

\* C3: with minDur <= 0 or minDur > maxDur (the frames and totalDuration
\* being valid) planning fails with a configuration error: no event is
\* produced and no later step of the pipeline runs.
C3_InvalidConfigRejected ==
    \A r \in Runs :
        (InvalidDurationBounds(r) /\ dirFiles[r] >= 1 /\ self[r].totalDuration > 0) =>
            /\ sequence[r] = << >>
            /\ pc[r] \in {"off", "new", "generateSequence", "rejected"}

\* C9: under a valid configuration every iteration of the planning loop
\* advances currentTime by at least min(minDur, remaining) > 0, and the loop
\* ends: generateSequence returns.
C9_PlanningTerminates ==
    /\ [][\A r \in Runs :
            (ValidConfig(r) /\ sequence'[r] # sequence[r]) =>
                LET remaining == self[r].totalDuration - currentTime[r]
                    least == Min(self[r].minFrameDuration, remaining)
                IN  /\ least > 0
                    /\ currentTime'[r] - currentTime[r] >= least]_vars
    /\ \A r \in Runs :
            (ValidConfig(r) /\ pc[r] = "generateSequence")
                ~> (pc[r] = "prepareFrames"
                      /\ currentTime[r] >= self[r].totalDuration)

\* a valid configuration has returned after an iteration that drew its
\* duration at random
C9_Witness ==
    \E r \in Runs :
        /\ ValidConfig(r)
        /\ pc[r] = "prepareFrames"
        /\ Len(sequence[r]) >= 2
        /\ sequence[r][1].duration < self[r].totalDuration - self[r].maxFrameDuration

(***************************************************************************)
(* Properties of buildGlitchFilter                                         *)
(***************************************************************************)
\* the elements of a joined list: every other one, the "," between left out
Unjoin(joined) == [k \in 1 .. ((Len(joined) + 1) \div 2) |-> joined[2 * k - 1]]

IsPrefix(a, b) == Len(a) <= Len(b) /\ SubSeq(b, 1, Len(a)) = a

SeqToSet(q) == {q[k] : k \in 1 .. Len(q)}

\* the stage a filter belongs to: 0 format, 1 scanlines, 2 noise, 3 chromatic
StageRank(f) ==
    CASE f = FormatFilter -> 0
      [] f \in SeqToSet(ScanlineFilters) -> 1
      [] f = NoiseFilter -> 2
      [] f \in SeqToSet(ChromaticFilters) -> 3

\* C4: the stage list built at level k in 1..3 starts with the whole list of
\* level k-1, and at every level the stages come in the order format,
\* scanlines, noise, chromatic shift, the format first.
C4_GlitchStagesNested ==
    \A r \in Runs :
        glitchFilter[r] # << >> =>
            LET level == self[r].glitchLevel
                built == Unjoin(glitchFilter[r])
            IN  /\ built[1] = FormatFilter
                /\ \A a \in 1 .. Len(built), b \in 1 .. Len(built) :
                      a < b => StageRank(built[a]) <= StageRank(built[b])
                /\ \A a \in 2 .. Len(built) : StageRank(built[a]) <= level
                /\ level \in 1 .. 3 =>
                      /\ IsPrefix(GlitchFilters(level - 1), built)
                      /\ Len(GlitchFilters(level - 1)) < Len(built)
                      /\ \E a \in 1 .. Len(built) : StageRank(built[a]) = level

\* the filter of level 3 has been built
C4_Witness ==
    \E r \in Runs :
        /\ self[r].glitchLevel = 3
        /\ glitchFilter[r] # << >>
        /\ \E a \in 1 .. Len(glitchFilter[r]) : glitchFilter[r][a] = NoiseFilter

(***************************************************************************)
(* Properties of prepareFrames and createConcatFile                        *)
(***************************************************************************)
\* run r has written the descriptor and it is still there
DescriptorOf(r) ==
    /\ concatFile[r] # << >>
    /\ fs[ConcatPath].exists
    /\ fs[ConcatPath].writer = r

\* the shape of the descriptor of the prepared frames: n+1 "file" entries,
\* entry k the artifact of prepared frame k (of event k, at index k-1) with
\* a duration after it, the last entry the artifact of entry n again with
\* nothing after it
DescriptorShape(content, prepared, events) ==
    LET n == Len(prepared)
    IN  /\ n >= 1
        /\ Cardinality({k \in 1 .. Len(content) : content[k].key = "file"}) = n + 1
        /\ Len(content) = 2 * n + 1
        /\ \A k \in 1 .. n :
              /\ prepared[k].frame = events[k].frame
              /\ prepared[k].duration = events[k].duration
              /\ prepared[k].rotatedFrame = PngPath(k - 1)
              /\ content[2 * k - 1].key = "file"
              /\ content[2 * k - 1].arg = prepared[k].rotatedFrame
              /\ content[2 * k].key = "duration"
        /\ content[2 * n + 1].key = "file"
        /\ content[2 * n + 1].arg = content[2 * n - 1].arg

\* C5 as stated (on the valid configurations): n+1 file entries in input
\* order, each of the first n followed by its frame's duration, the last a
\* duplicate of entry n-1 with no duration.
C5_DescriptorExact ==
    \A r \in Runs :
        (DescriptorOf(r) /\ ValidConfig(r)) =>
            LET content == fs[ConcatPath].data
                prepared == preparedFrames[r]
            IN  /\ DescriptorShape(content, prepared, sequence[r])
                /\ \A k \in 1 .. Len(prepared) :
                      \* thousandths of a second = milliseconds = RandDen ticks
                      content[2 * k].arg * RandDen = prepared[k].duration

\* C5 amended: the same shape, the duration written being the frame's
\* duration rounded to three decimals (at most half a millisecond away).
C5_DescriptorRounded ==
    \A r \in Runs :
        DescriptorOf(r) =>
            LET content == fs[ConcatPath].data
                prepared == preparedFrames[r]
            IN  /\ DescriptorShape(content, prepared, sequence[r])
                /\ \A k \in 1 .. Len(prepared) :
                      2 * Abs(content[2 * k].arg * RandDen - prepared[k].duration)
                          <= RandDen

\* a descriptor of two frames or more, one duration not a whole millisecond
C5_Witness ==
    \E r \in Runs :
        /\ DescriptorOf(r)
        /\ Len(preparedFrames[r]) >= 2
        /\ \E k \in 1 .. Len(preparedFrames[r]) :
              preparedFrames[r][k].duration % RandDen # 0

(***************************************************************************)
(* Properties of a failed transform                                        *)
(***************************************************************************)
\* C8: when the convert process of event k-1 exits with a status other than
\* 0, the run is rejected with an error naming index k-1, createConcatFile
\* has not run (no descriptor of the run exists) and the encode has not
\* been started; a rejected run takes no further step.
C8_TransformFailureAborts ==
    \A r \in Runs : \A k \in 1 .. Len(convertExit[r]) :
        convertExit[r][k] # 0 =>
            /\ pc[r] = "rejected"
            /\ err[r] = Error("ImageMagick failed for frame", k - 1)
            /\ k = Len(convertExit[r])
            /\ Len(preparedFrames[r]) = k - 1
            /\ concatFile[r] = << >>
            /\ ~(fs[ConcatPath].exists /\ fs[ConcatPath].writer = r)
            /\ glitchFilter[r] = << >>
            /\ encoded[r] = [ok |-> FALSE, sources |-> {}]

\* the transform of the second event failed after the first succeeded
C8_Witness ==
    \E r \in Runs :
        /\ Len(convertExit[r]) = 2
        /\ convertExit[r][1] = 0
        /\ convertExit[r][2] # 0
        /\ pc[r] = "rejected"

(***************************************************************************)
(* Properties of overlayOnVideo                                            *)
(***************************************************************************)
\* run r has computed its overlay placement
Placed(r) == overlay[r] # NoOverlay

RECURSIVE EvalExpr(_, _)
EvalExpr(e, env) ==
    LET last == e[Len(e)]
        v == IF last.kind = "var" THEN env[last.name] ELSE last.val
    IN  IF Len(e) = 1 THEN v ELSE EvalExpr(SubSeq(e, 1, Len(e) - 1), env) - v

\* the placement table of the four corners, an unrecognized (or absent)
\* position being placed like bottom-right
TableX(position, margin, env) ==
    IF position \in {"bottom-left", "top-left"}
    THEN margin
    ELSE env.main_w - env.overlay_w - margin

TableY(position, margin, env) ==
    IF position \in {"top-right", "top-left"}
    THEN margin
    ELSE env.main_h - env.overlay_h - margin

Sizes ==
    { [main_w |-> 1920, main_h |-> 1080, overlay_w |-> 320, overlay_h |-> 320],
      [main_w |-> 640, main_h |-> 480, overlay_w |-> 128, overlay_h |-> 128] }

\* C7: for every position and every margin >= 0 given to overlayOnVideo,
\* margin 0 included, x and y are those of the placement table.
C7_PlacementTable ==
    \A r \in Runs :
        Placed(r) =>
            \A env \in Sizes :
                LET given == overlay[r].options
                IN  /\ EvalExpr(overlay[r].x, env)
                          = TableX(given.position, given.margin, env)
                    /\ EvalExpr(overlay[r].y, env)
                          = TableY(given.position, given.margin, env)

(***************************************************************************)
(* Properties of the scratch files of concurrent runs                      *)
(***************************************************************************)
\* run r holds scratch files it has not deleted yet
Holding(r) ==
    pc[r] \in {"prepareFrames", "convert", "createConcatFile",
               "buildGlitchFilter", "ffmpeg", "encoding"}

\* C10: the scratch files of a run are its own: the artifacts and the
\* descriptor it has written are still there as it wrote them, whatever the
\* other run does, and its encode reads only files it wrote itself.
C10_ScratchExclusive ==
    \A r \in Runs :
        /\ Holding(r) =>
              /\ \A k \in 1 .. Len(preparedFrames[r]) :
                    fs[preparedFrames[r][k].rotatedFrame] =
                        File(r, RotatedImage(self[r], preparedFrames[r][k].frame,
                                             preparedFrames[r][k].rotation))
              /\ concatFile[r] # << >> =>
                    /\ fs[concatFile[r][1]].exists
                    /\ fs[concatFile[r][1]].writer = r
        /\ encoded[r].sources \subseteq {r}

====
